---- MODULE Spec2Model ----
(***************************************************************************)
(* Storage benchmark app (src/App.tsx and its percentage-reporting         *)
(* sibling src/unnamed/part_000): runBenchmark times a write and a read    *)
(* against AsyncStorage (asynchronous, native thread) and MMKV             *)
(* (synchronous), handleRunTests appends the result record to the React    *)
(* state `results`.                                                        *)
(*                                                                         *)
(* JavaScript strings are sequences of one-character strings.  Times are   *)
(* integers (clock ticks of performance.now()); quotients are exact        *)
(* fractions with the IEEE special values Infinity and NaN kept apart.     *)
(***************************************************************************)
EXTENDS Integers, Sequences, FiniteSets, TLC

\* ------------------------------------------------------------------ bounds
\* Number of button presses (runs of handleRunTests) explored.
MaxRuns == 2
\* Largest payload size a button press may request; sizes are 0..MaxSize.
MaxSize == 1
\* Largest value performance.now() takes.
MaxClock == 2
\* Largest payload size already stored when a read is called on its own.
MaxStored == 11

Sizes == 0..MaxSize
RunIds == 1..MaxRuns

\* --------------------------------------------------------- JavaScript values
\* What getItem / getString hand back: a string, null or undefined.
JSString(text) == [kind |-> "string", text |-> text]
JSNull == [kind |-> "null", text |-> <<>>]
JSUndefined == [kind |-> "undefined", text |-> <<>>]

\* What JSON.parse hands back: an array of payload items, or null.
JSArray(items) == [kind |-> "array", items |-> items]
JSNullValue == [kind |-> "null", items |-> <<>>]

DigitChars == <<"0", "1", "2", "3", "4", "5", "6", "7", "8", "9">>

\* Number -> decimal string, as `${i}` and JSON.stringify write a
\* non-negative integer.
RECURSIVE NumberToString(_)
NumberToString(n) ==
    IF n < 10 THEN <<DigitChars[n + 1]>>
    ELSE NumberToString(n \div 10) \o <<DigitChars[(n % 10) + 1]>>

\* `Data ${i}`
DataValue(i) == <<"D", "a", "t", "a", " ">> \o NumberToString(i)

\* Array.from({ length: size }, (_, i) => ({ id: i, value: `Data ${i}` }))
GenerateData(size) == [k \in 1..size |-> [id |-> k - 1, value |-> DataValue(k - 1)]]

\* JSON.stringify of one payload item: {"id":N,"value":"Data N"}.  The
\* characters of a payload value never need escaping.
StringifyItem(item) ==
    <<"{", "\"", "i", "d", "\"", ":">> \o NumberToString(item.id)
    \o <<",", "\"", "v", "a", "l", "u", "e", "\"", ":", "\"">> \o item.value
    \o <<"\"", "}">>

RECURSIVE StringifyItems(_, _)
StringifyItems(items, k) ==
    IF k > Len(items) THEN <<>>
    ELSE (IF k > 1 THEN <<",">> ELSE <<>>) \o StringifyItem(items[k])
         \o StringifyItems(items, k + 1)

\* JSON.stringify(value) for a payload array.
JSONstringify(data) == <<"[">> \o StringifyItems(data, 1) \o <<"]">>

\* ------------------------------------------------------------- JSON.parse
HasAt(s, i, lit) ==
    /\ i >= 1
    /\ i + Len(lit) - 1 <= Len(s)
    /\ SubSeq(s, i, i + Len(lit) - 1) = lit

IsDigit(c) == \E d \in 1..10 : DigitChars[d] = c
DigitValue(c) == (CHOOSE d \in 1..10 : DigitChars[d] = c) - 1

\* Longest run of digits of s from position i: [ok, val, next].
RECURSIVE ScanDigits(_, _, _, _)
ScanDigits(s, i, acc, seen) ==
    IF i <= Len(s) /\ IsDigit(s[i])
    THEN ScanDigits(s, i + 1, acc * 10 + DigitValue(s[i]), TRUE)
    ELSE [ok |-> seen, val |-> acc, next |-> i]

\* Characters of s from i up to the closing quote: [ok, val, next].
RECURSIVE ScanString(_, _, _)
ScanString(s, i, acc) ==
    IF i > Len(s) THEN [ok |-> FALSE, val |-> acc, next |-> i]
    ELSE IF s[i] = "\"" THEN [ok |-> TRUE, val |-> acc, next |-> i + 1]
    ELSE IF s[i] = "\\" THEN [ok |-> FALSE, val |-> acc, next |-> i]
    ELSE ScanString(s, i + 1, Append(acc, s[i]))

IdKey == <<"{", "\"", "i", "d", "\"", ":">>
ValueKey == <<",", "\"", "v", "a", "l", "u", "e", "\"", ":", "\"">>

\* One object {"id":N,"value":"..."} of s at position i: [ok, item, next].
ParseItem(s, i) ==
    LET bad == [ok |-> FALSE, item |-> [id |-> 0, value |-> <<>>], next |-> i]
    IN  IF ~HasAt(s, i, IdKey) THEN bad
        ELSE LET n == ScanDigits(s, i + Len(IdKey), 0, FALSE)
             IN  IF ~n.ok \/ ~HasAt(s, n.next, ValueKey) THEN bad
                 ELSE LET v == ScanString(s, n.next + Len(ValueKey), <<>>)
                      IN  IF ~v.ok \/ ~HasAt(s, v.next, <<"}">>) THEN bad
                          ELSE [ok |-> TRUE,
                                item |-> [id |-> n.val, value |-> v.val],
                                next |-> v.next + 1]

\* The elements of an array from position i to the closing bracket, which
\* must end the text: [ok, value].
RECURSIVE ParseItems(_, _, _)
ParseItems(s, i, acc) ==
    LET e == ParseItem(s, i)
    IN  IF ~e.ok THEN [ok |-> FALSE, value |-> JSNullValue]
        ELSE IF HasAt(s, e.next, <<",">>)
             THEN ParseItems(s, e.next + 1, Append(acc, e.item))
        ELSE IF HasAt(s, e.next, <<"]">>) /\ e.next = Len(s)
             THEN [ok |-> TRUE, value |-> JSArray(Append(acc, e.item))]
        ELSE [ok |-> FALSE, value |-> JSNullValue]

\* ToString of the argument, the first step of JSON.parse: null and
\* undefined become the texts "null" and "undefined".
JSToString(v) ==
    CASE v.kind = "null" -> <<"n", "u", "l", "l">>
      [] v.kind = "undefined" -> <<"u", "n", "d", "e", "f", "i", "n", "e", "d">>
      [] OTHER -> v.text

\* JSON.parse(v): [ok, value]; ok = FALSE is a thrown SyntaxError.  The
\* grammar covers the texts this program can hold: "null", and arrays of
\* payload items as JSON.stringify writes them; any other text is rejected.
JSONparse(v) ==
    LET s == JSToString(v)
    IN  IF s = <<"n", "u", "l", "l">> THEN [ok |-> TRUE, value |-> JSNullValue]
        ELSE IF s = <<"[", "]">> THEN [ok |-> TRUE, value |-> JSArray(<<>>)]
        ELSE IF HasAt(s, 1, <<"[">>) THEN ParseItems(s, 2, <<>>)
        ELSE [ok |-> FALSE, value |-> JSNullValue]

\* ------------------------------------------------------------ arithmetic
Abs(x) == IF x < 0 THEN -x ELSE x

RECURSIVE GCD(_, _)
GCD(a, b) == IF b = 0 THEN a ELSE GCD(b, a % b)

\* The fraction n/d, d > 0, in lowest terms.
Fraction(n, d) ==
    LET g == GCD(Abs(n), d)
    IN  [kind |-> "finite", num |-> n \div g, den |-> d \div g]

JSInfinity == [kind |-> "Infinity", num |-> 0, den |-> 1]
JSNegInfinity == [kind |-> "-Infinity", num |-> 0, den |-> 1]
JSNaN == [kind |-> "NaN", num |-> 0, den |-> 1]

\* a / b on JavaScript numbers: x/0 is Infinity or -Infinity, 0/0 is NaN.
JSDivide(a, b) ==
    IF b = 0
    THEN (IF a > 0 THEN JSInfinity ELSE IF a < 0 THEN JSNegInfinity ELSE JSNaN)
    ELSE IF b < 0 THEN Fraction(-a, -b)
    ELSE Fraction(a, b)

\* x * 100 on a quotient: Infinity and NaN stay what they are.
JSTimes100(x) ==
    IF x.kind = "finite" THEN Fraction(x.num * 100, x.den) ELSE x

\* ------------------------------------------------------------------ state
VARIABLES
    build,           \* which source file is running: "App" or "part_000"
    now,             \* performance.now()
    asyncStore,      \* what AsyncStorage.getItem('asyncKey') would return
    mmkvStore,       \* what storage.getString('mmkvKey') would return
    runs,            \* one handleRunTests invocation per button press
    pendingUpdates,  \* updaters passed to setResults, not yet applied
    results,         \* the React state `results`
    readCall         \* a read helper called on its own (SpecRead only)

vars == <<build, now, asyncStore, mmkvStore, runs, pendingUpdates, results, readCall>>

\* The statements of runBenchmark that touch storage, in program order.
\* asyncWrite and asyncRead are awaited; mmkvWrite and mmkvRead are plain
\* calls.
runBenchmarkOps_writesFirst == <<"asyncWrite", "mmkvWrite", "asyncRead", "mmkvRead">>
runBenchmarkOps == <<"asyncWrite", "asyncRead", "mmkvWrite", "mmkvRead">>

\* endTime - startTime
elapsed_swapped(startTime, endTime) == startTime - endTime
elapsed(startTime, endTime) == endTime - startTime

IdleRun ==
    [pc |-> "idle", size |-> 0, data |-> <<>>, ip |-> 1, await |-> "none",
     startTime |-> 0, value |-> JSNull, error |-> "none",
     asyncWriteTime |-> 0, asyncReadTime |-> 0,
     mmkvWriteTime |-> 0, mmkvReadTime |-> 0,
     mmkvReadValue |-> JSNullValue,
     trace |-> <<>>]

NoReadCall ==
    [fn |-> "none", pc |-> "idle", startTime |-> 0, value |-> JSNull,
     time |-> 0, decoded |-> JSNullValue]

\* A fresh install: nothing is stored under either key.
Fresh(b) ==
    /\ build = b
    /\ now = 0
    /\ asyncStore = JSNull
    /\ mmkvStore = JSUndefined
    /\ runs = [r \in RunIds |-> IdleRun]
    /\ pendingUpdates = <<>>
    /\ results = <<>>
    /\ readCall = NoReadCall

Init == Fresh("App")
InitPart000 == Fresh("part_000")

\* ------------------------------------------------------- the four helpers
\* asyncStorageWrite after its await: the elapsed time it returns.
asyncStorageWrite(startTime, endTime) == elapsed(startTime, endTime)

\* asyncStorageRead after its await, given what getItem resolved to:
\* { time: endTime - startTime, value: JSON.parse(value) }, or the
\* SyntaxError of JSON.parse (ok = FALSE).
asyncStorageRead(value, startTime, endTime) ==
    LET parsed == JSONparse(value)
    IN  [ok |-> parsed.ok, time |-> elapsed(startTime, endTime), value |-> parsed.value]

\* mmkvWrite: what storage.set leaves under the key, and the elapsed time.
mmkvWrite(data, startTime, endTime) ==
    [stored |-> JSString(JSONstringify(data)), time |-> elapsed(startTime, endTime)]

\* mmkvRead, given what storage.getString returned.
mmkvRead(value, startTime, endTime) ==
    LET parsed == JSONparse(value)
    IN  [ok |-> parsed.ok, time |-> elapsed(startTime, endTime), value |-> parsed.value]

\* --------------------------------------------------------------- one run
Event(run, op, phase) == [run EXCEPT !.trace = Append(@, <<op, phase>>)]

\* The run takes a start timestamp, hands the call to the native module
\* and suspends at the await.
Suspend(run, op, t) ==
    [Event(run, op, "start") EXCEPT !.await = "pending", !.startTime = t]

\* An exception leaves the helper and runBenchmark, neither of which has a
\* handler: the promise of runBenchmark is rejected with it.
Throw(run, op, err) ==
    [Event(run, op, "throw") EXCEPT !.pc = "rejected", !.await = "none", !.error = err]

\* What the MMKV calls of one synchronous stretch may do: both succeed,
\* storage.set throws, or storage.getString throws.
MmkvFaults == {"none", "set", "getString"}

\* runBenchmark from statement run.ip on, up to its next await, its return
\* or an exception.  st = [run, mmkv, now]; dW and dR are the times
\* storage.set and storage.getString take.
RECURSIVE runBenchmarkFrom(_, _, _, _)
runBenchmarkFrom(st, dW, dR, fault) ==
    LET run == st.run
        step(st2) == runBenchmarkFrom([st2 EXCEPT !.run.ip = @ + 1], dW, dR, fault)
    IN  IF run.ip > Len(runBenchmarkOps)
        THEN [st EXCEPT !.run.pc = "resolved"]
        ELSE LET op == runBenchmarkOps[run.ip]
             IN  CASE op \in {"asyncWrite", "asyncRead"} ->
                        [st EXCEPT !.run = Suspend(run, op, st.now)]
                   [] op = "mmkvWrite" ->
                        IF fault = "set"
                        THEN [st EXCEPT !.run = Throw(Event(run, op, "start"), op, "MMKVError")]
                        ELSE LET w == mmkvWrite(run.data, st.now, st.now + dW)
                             IN  step([run |-> [Event(Event(Event(run, op, "start"), op, "done"), op, "end")
                                                  EXCEPT !.mmkvWriteTime = w.time],
                                       mmkv |-> w.stored,
                                       now |-> st.now + dW])
                   [] op = "mmkvRead" ->
                        IF fault = "getString"
                        THEN [st EXCEPT !.run = Throw(Event(run, op, "start"), op, "MMKVError")]
                        ELSE LET rd == mmkvRead(st.mmkv, st.now, st.now + dR)
                                 timed == Event(Event(Event(run, op, "start"), op, "done"), op, "end")
                             IN  IF ~rd.ok
                                 THEN [st EXCEPT !.run = Throw(timed, op, "SyntaxError"),
                                                 !.now = st.now + dR]
                                 ELSE step([st EXCEPT
                                              !.run = [timed EXCEPT !.mmkvReadTime = rd.time,
                                                                    !.mmkvReadValue = rd.value],
                                              !.now = st.now + dR])

\* Math.abs(a - b)
Difference_signed(a, b) == a - b
Difference(a, b) == Abs(a - b)

\* a < b ? (difference / a) * 100 : (difference / b) * 100
PercentageDifference_byLarger(difference, a, b) ==
    IF a > b THEN JSTimes100(JSDivide(difference, a))
    ELSE JSTimes100(JSDivide(difference, b))
PercentageDifference(difference, a, b) ==
    IF a < b THEN JSTimes100(JSDivide(difference, a))
    ELSE JSTimes100(JSDivide(difference, b))

\* The record runBenchmark returns.  App.tsx reports the two averages,
\* part_000 the two percentage differences.
runBenchmarkResult(b, run) ==
    LET asyncWriteTime == run.asyncWriteTime
        asyncReadTime == run.asyncReadTime
        mmkvWriteTime == run.mmkvWriteTime
        mmkvReadTime == run.mmkvReadTime
        writeDifference == Difference(asyncWriteTime, mmkvWriteTime)
        readDifference == Difference(asyncReadTime, mmkvReadTime)
    IN  IF b = "App"
        THEN [size |-> run.size,
              asyncWriteTime |-> asyncWriteTime,
              asyncReadTime |-> asyncReadTime,
              asyncAvg |-> JSDivide(asyncWriteTime + asyncReadTime, 2),
              mmkvWriteTime |-> mmkvWriteTime,
              mmkvReadTime |-> mmkvReadTime,
              mmkvAvg |-> JSDivide(mmkvWriteTime + mmkvReadTime, 2),
              writeDifference |-> writeDifference,
              readDifference |-> readDifference]
        ELSE [size |-> run.size,
              asyncWriteTime |-> asyncWriteTime,
              asyncReadTime |-> asyncReadTime,
              mmkvWriteTime |-> mmkvWriteTime,
              mmkvReadTime |-> mmkvReadTime,
              writeDifference |-> writeDifference,
              readDifference |-> readDifference,
              writePercentageDifference |->
                  PercentageDifference(writeDifference, asyncWriteTime, mmkvWriteTime),
              readPercentageDifference |->
                  PercentageDifference(readDifference, asyncReadTime, mmkvReadTime)]

\* handleRunTests after `await runBenchmark(size)`: the queue of updaters
\* handed to setResults.  A rejected await throws past the setResults call.
handleRunTests_always(b, run, queue) == Append(queue, runBenchmarkResult(b, run))
handleRunTests(b, run, queue) ==
    IF run.pc = "resolved" THEN Append(queue, runBenchmarkResult(b, run)) ELSE queue

\* prevResults => [...prevResults, result]
setResultsUpdater_replace(prevResults, result) == <<result>>
setResultsUpdater(prevResults, result) == Append(prevResults, result)

RECURSIVE ApplyUpdates(_, _)
ApplyUpdates(state, queue) ==
    IF queue = <<>> THEN state
    ELSE ApplyUpdates(setResultsUpdater(state, Head(queue)), Tail(queue))

\* ----------------------------------------------------------------- actions
\* The durations <<dW, dR>> the MMKV calls of one synchronous stretch may
\* take, within the clock's range.
Durations == {d \in (0..MaxClock) \X (0..MaxClock) : now + d[1] + d[2] <= MaxClock}

\* The same with a clock too coarse to see the calls take time.
NoDurations == {<<0, 0>>}

\* The invocation is over: its locals are gone; its outcome, the calls it
\* made and what it read from MMKV stay on record.
Finished(run) ==
    [IdleRun EXCEPT !.pc = IF run.pc = "resolved" THEN "done" ELSE "failed",
                    !.size = run.size, !.error = run.error, !.trace = run.trace,
                    !.mmkvReadValue = run.mmkvReadValue]

\* The end of one stretch of JavaScript.  When runBenchmark has returned or
\* thrown, handleRunTests resumes in the same drain of the microtask queue,
\* before any native callback or button press is handled.
Commit(r, st) ==
    /\ runs' = [runs EXCEPT ![r] =
                  IF st.run.pc = "running" THEN st.run ELSE Finished(st.run)]
    /\ pendingUpdates' = handleRunTests(build, st.run, pendingUpdates)
    /\ mmkvStore' = st.mmkv
    /\ now' = st.now

\* runBenchmark goes on from statement run.ip.  A stretch that starts at an
\* awaited helper calls no MMKV function, so nothing is drawn for it.
Continue(r, run, D) ==
    LET st == [run |-> run, mmkv |-> mmkvStore, now |-> now]
    IN  IF run.ip <= Len(runBenchmarkOps)
              /\ runBenchmarkOps[run.ip] \in {"asyncWrite", "asyncRead"}
        THEN Commit(r, runBenchmarkFrom(st, 0, 0, "none"))
        ELSE \E d \in D, fault \in MmkvFaults :
                Commit(r, runBenchmarkFrom(st, d[1], d[2], fault))

\* A button is pressed: handleRunTests(size) calls runBenchmark(size), which
\* builds the payload and runs up to its first await.
Press(size, D) ==
    /\ \E r \in RunIds :
        /\ runs[r].pc = "idle"
        /\ \A q \in RunIds : q < r => runs[q].pc # "idle"
        /\ Continue(r, [runs[r] EXCEPT !.pc = "running", !.size = size,
                                       !.data = GenerateData(size)], D)
    /\ UNCHANGED <<build, asyncStore, results, readCall>>

Awaiting(r, op) ==
    /\ runs[r].pc = "running"
    /\ runBenchmarkOps[runs[r].ip] = op

\* The native module stores the text handed to AsyncStorage.setItem.
SetItemComplete(r) ==
    /\ Awaiting(r, "asyncWrite")
    /\ runs[r].await = "pending"
    /\ asyncStore' = JSString(JSONstringify(runs[r].data))
    /\ runs' = [runs EXCEPT ![r] = [Event(@, "asyncWrite", "done") EXCEPT !.await = "fulfilled"]]
    /\ UNCHANGED <<build, now, mmkvStore, pendingUpdates, results, readCall>>

\* AsyncStorage.setItem rejects; nothing is stored.
SetItemFail(r) ==
    /\ Awaiting(r, "asyncWrite")
    /\ runs[r].await = "pending"
    /\ runs' = [runs EXCEPT ![r] = [@ EXCEPT !.await = "rejected", !.error = "AsyncStorageError"]]
    /\ UNCHANGED <<build, now, asyncStore, mmkvStore, pendingUpdates, results, readCall>>

\* The native module reads the key for AsyncStorage.getItem.
GetItemComplete(r) ==
    /\ Awaiting(r, "asyncRead")
    /\ runs[r].await = "pending"
    /\ runs' = [runs EXCEPT ![r] = [Event(@, "asyncRead", "done")
                                      EXCEPT !.await = "fulfilled", !.value = asyncStore]]
    /\ UNCHANGED <<build, now, asyncStore, mmkvStore, pendingUpdates, results, readCall>>

\* AsyncStorage.getItem rejects.
GetItemFail(r) ==
    /\ Awaiting(r, "asyncRead")
    /\ runs[r].await = "pending"
    /\ runs' = [runs EXCEPT ![r] = [@ EXCEPT !.await = "rejected", !.error = "AsyncStorageError"]]
    /\ UNCHANGED <<build, now, asyncStore, mmkvStore, pendingUpdates, results, readCall>>

\* asyncStorageWrite resumes after its await: it rethrows the rejection, or
\* takes the end timestamp and returns, and runBenchmark goes on.
ResumeAsyncStorageWrite(r, D) ==
    /\ Awaiting(r, "asyncWrite")
    /\ runs[r].await \in {"fulfilled", "rejected"}
    /\ IF runs[r].await = "rejected"
       THEN Commit(r, [run |-> Throw(runs[r], "asyncWrite", runs[r].error),
                       mmkv |-> mmkvStore, now |-> now])
       ELSE Continue(r, [Event(runs[r], "asyncWrite", "end") EXCEPT
                           !.asyncWriteTime = asyncStorageWrite(runs[r].startTime, now),
                           !.await = "none", !.ip = @ + 1], D)
    /\ UNCHANGED <<build, asyncStore, results, readCall>>

\* asyncStorageRead resumes after its await: it rethrows the rejection, or
\* takes the end timestamp, parses the value and returns, and runBenchmark
\* goes on.  The parsed value is held in asyncReadResult.value and never
\* looked at again.
ResumeAsyncStorageRead(r, D) ==
    /\ Awaiting(r, "asyncRead")
    /\ runs[r].await \in {"fulfilled", "rejected"}
    /\ IF runs[r].await = "rejected"
       THEN Commit(r, [run |-> Throw(runs[r], "asyncRead", runs[r].error),
                       mmkv |-> mmkvStore, now |-> now])
       ELSE LET rd == asyncStorageRead(runs[r].value, runs[r].startTime, now)
                timed == Event(runs[r], "asyncRead", "end")
            IN  IF ~rd.ok
                THEN Commit(r, [run |-> Throw(timed, "asyncRead", "SyntaxError"),
                                mmkv |-> mmkvStore, now |-> now])
                ELSE Continue(r, [timed EXCEPT !.asyncReadTime = rd.time,
                                               !.await = "none", !.ip = @ + 1], D)
    /\ UNCHANGED <<build, asyncStore, results, readCall>>

\* React re-renders: the queued updaters are applied in order.
Render ==
    /\ pendingUpdates # <<>>
    /\ results' = ApplyUpdates(results, pendingUpdates)
    /\ pendingUpdates' = <<>>
    /\ UNCHANGED <<build, now, asyncStore, mmkvStore, runs, readCall>>

\* Time passes.  Only differences of timestamps are observable, so the
\* clock is advanced only while some call is being timed.
Tick ==
    /\ now < MaxClock
    /\ \E r \in RunIds : runs[r].await \in {"pending", "fulfilled"}
    /\ now' = now + 1
    /\ UNCHANGED <<build, asyncStore, mmkvStore, runs, pendingUpdates, results, readCall>>

Next ==
    \/ \E size \in Sizes : Press(size, Durations)
    \/ \E r \in RunIds : SetItemComplete(r)
    \/ \E r \in RunIds : SetItemFail(r)
    \/ \E r \in RunIds : GetItemComplete(r)
    \/ \E r \in RunIds : GetItemFail(r)
    \/ \E r \in RunIds : ResumeAsyncStorageWrite(r, Durations)
    \/ \E r \in RunIds : ResumeAsyncStorageRead(r, Durations)
    \/ Render
    \/ Tick

\* The whole app, src/App.tsx, and its sibling src/unnamed/part_000.
Spec == Init /\ [][Next]_vars
SpecPart000 == InitPart000 /\ [][Next]_vars

\* The same button pressed every time, so that the runs differ in their
\* timings alone; src/App.tsx, and src/unnamed/part_000.
NextSameSize ==
    \/ \E size \in {MaxSize} : Press(size, Durations)
    \/ \E r \in RunIds : SetItemComplete(r)
    \/ \E r \in RunIds : SetItemFail(r)
    \/ \E r \in RunIds : GetItemComplete(r)
    \/ \E r \in RunIds : GetItemFail(r)
    \/ \E r \in RunIds : ResumeAsyncStorageWrite(r, Durations)
    \/ \E r \in RunIds : ResumeAsyncStorageRead(r, Durations)
    \/ Render
    \/ Tick

SpecSameSize == Init /\ [][NextSameSize]_vars
SpecSameSizePart000 == InitPart000 /\ [][NextSameSize]_vars

\* Every button, on a clock too coarse to advance during the session, so
\* that the runs differ in their payloads alone.
NextCoarseClock ==
    \/ \E size \in Sizes : Press(size, NoDurations)
    \/ \E r \in RunIds : SetItemComplete(r)
    \/ \E r \in RunIds : SetItemFail(r)
    \/ \E r \in RunIds : GetItemComplete(r)
    \/ \E r \in RunIds : GetItemFail(r)
    \/ \E r \in RunIds : ResumeAsyncStorageWrite(r, NoDurations)
    \/ \E r \in RunIds : ResumeAsyncStorageRead(r, NoDurations)
    \/ Render

SpecCoarseClock == Init /\ [][NextCoarseClock]_vars

\* ------------------------------------------------- a read helper on its own
\* What a key may hold before the app starts: nothing, a payload written by
\* an earlier session, or a text cut short.
StoredSizes == {0, 1, MaxStored}
StoredTexts ==
    {JSString(JSONstringify(GenerateData(n))) : n \in StoredSizes}
    \cup {JSString(<<"[", "{">>)}

InitRead ==
    /\ build = "App"
    /\ now = 0
    /\ asyncStore \in {JSNull} \cup StoredTexts
    /\ mmkvStore \in {JSUndefined} \cup StoredTexts
    /\ runs = [r \in RunIds |-> IdleRun]
    /\ pendingUpdates = <<>>
    /\ results = <<>>
    /\ readCall = NoReadCall

\* asyncStorageRead('asyncKey') is called: start timestamp, getItem, await.
CallAsyncStorageRead ==
    /\ readCall.pc = "idle"
    /\ readCall' = [readCall EXCEPT !.fn = "asyncStorageRead", !.pc = "pending",
                                    !.startTime = now]
    /\ UNCHANGED <<build, now, asyncStore, mmkvStore, runs, pendingUpdates, results>>

\* The native module reads the key.
ReadGetItemComplete ==
    /\ readCall.pc = "pending"
    /\ readCall' = [readCall EXCEPT !.pc = "fulfilled", !.value = asyncStore]
    /\ UNCHANGED <<build, now, asyncStore, mmkvStore, runs, pendingUpdates, results>>

\* asyncStorageRead resumes, and returns or throws.
ReturnAsyncStorageRead ==
    /\ readCall.pc = "fulfilled"
    /\ LET rd == asyncStorageRead(readCall.value, readCall.startTime, now)
       IN  readCall' = [readCall EXCEPT !.pc = IF rd.ok THEN "returned" ELSE "threw",
                                        !.time = rd.time, !.decoded = rd.value]
    /\ UNCHANGED <<build, now, asyncStore, mmkvStore, runs, pendingUpdates, results>>

\* mmkvRead('mmkvKey') is called and returns or throws.
CallMmkvRead ==
    /\ readCall.pc = "idle"
    /\ \E d \in 0..(MaxClock - now) :
        LET rd == mmkvRead(mmkvStore, now, now + d)
        IN  /\ readCall' = [readCall EXCEPT !.fn = "mmkvRead",
                                            !.pc = IF rd.ok THEN "returned" ELSE "threw",
                                            !.startTime = now, !.value = mmkvStore,
                                            !.time = rd.time, !.decoded = rd.value]
            /\ now' = now + d
    /\ UNCHANGED <<build, asyncStore, mmkvStore, runs, pendingUpdates, results>>

\* Time passes while getItem is in flight.
TickRead ==
    /\ now < MaxClock
    /\ readCall.pc \in {"pending", "fulfilled"}
    /\ now' = now + 1
    /\ UNCHANGED <<build, asyncStore, mmkvStore, runs, pendingUpdates, results, readCall>>

NextRead ==
    \/ CallAsyncStorageRead
    \/ ReadGetItemComplete
    \/ ReturnAsyncStorageRead
    \/ CallMmkvRead
    \/ TickRead

SpecRead == InitRead /\ [][NextRead]_vars
\* ------------------------------------------------------------ properties
IsPrefix(s, t) == Len(s) <= Len(t) /\ SubSeq(t, 1, Len(s)) = s

Min(a, b) == IF a <= b THEN a ELSE b

\* Every record runBenchmark has returned, rendered or not.
AllRecords == {results[i] : i \in 1..Len(results)}
                \cup {pendingUpdates[i] : i \in 1..Len(pendingUpdates)}

\* The value of `results` once React has applied the queued updaters.
History == ApplyUpdates(results, pendingUpdates)

NumDone == Cardinality({r \in RunIds : runs[r].pc = "done"})

\* The payload a run of the given size generates, as JSON.parse returns it.
ExpectedPayload(size) ==
    JSArray([k \in 1..size |->
               [id |-> k - 1, value |-> <<"D", "a", "t", "a", " ">> \o NumberToString(k - 1)]])

\* The calls of one run in the order the specification gives them, each
\* with its start timestamp, its completion and its end timestamp.
OperationOrder == <<"asyncWrite", "asyncRead", "mmkvWrite", "mmkvRead">>
Phases == <<"start", "done", "end">>
OrderedTrace ==
    [i \in 1..12 |-> <<OperationOrder[((i - 1) \div 3) + 1], Phases[((i - 1) % 3) + 1]>>]

IsThrow(e) == e[2] = "throw"
NotThrow(e) == e[2] # "throw"

\* C1: within one run the four storage operations happen in the order
\* write-A, read-A, write-B, read-B, and each starts (its start timestamp
\* is taken) only after the one before it has completed and its end
\* timestamp has been taken.
C1_OperationsInOrder ==
    \A r \in RunIds : IsPrefix(SelectSeq(runs[r].trace, NotThrow), OrderedTrace)

\* A run has gone through all four operations while another was in flight.
C1_Witness ==
    \E r, q \in RunIds :
        /\ runs[r].pc = "done"
        /\ runs[r].trace = OrderedTrace
        /\ runs[q].pc = "running"

\* C2: for every run, the payload decoded from its read of backend A and
\* the payload decoded from its read of backend B are both the payload
\* the run generated: length n, item[i].id = i, item[i].value = "Data " + i.
C2_RoundTripEveryRun ==
    \A r \in RunIds :
        /\ (Awaiting(r, "asyncRead") /\ runs[r].await = "fulfilled")
              => /\ JSONparse(runs[r].value).ok
                 /\ JSONparse(runs[r].value).value = ExpectedPayload(runs[r].size)
        /\ runs[r].pc = "done" => runs[r].mmkvReadValue = ExpectedPayload(runs[r].size)

\* C3: the caller serializes the runs: no two invocations of runBenchmark
\* started by handleRunTests are in flight at the same time.
C3_RunsSerialized ==
    Cardinality({r \in RunIds : runs[r].pc = "running"}) <= 1

\* C4: a read of a key that was never written fails, for asyncStorageRead
\* and mmkvRead alike; it never returns a time together with a value.
C4_UnwrittenReadFails ==
    /\ (readCall.fn = "asyncStorageRead" /\ asyncStore = JSNull)
          => readCall.pc # "returned"
    /\ (readCall.fn = "mmkvRead" /\ mmkvStore = JSUndefined)
          => readCall.pc # "returned"

\* The run stopped at the operation that threw: the operations before it
\* ran once each and in order, the one that threw was started once, and
\* nothing follows the throw.
Aborted(run) ==
    LET t == run.trace
        n == Len(t)
    IN  /\ n >= 2
        /\ IsThrow(t[n])
        /\ t[n - 1][1] = t[n][1]
        /\ IsPrefix(SubSeq(t, 1, n - 1), OrderedTrace)

\* C5: when an operation of a run throws, the run aborts at that step: the
\* error reaches the caller unchanged, the operation is not retried, no
\* later operation of the run is executed, and no record is appended, so
\* the history is the same after the failed run as before it.
C5_FailedRunAborts ==
    [][\A r \in RunIds :
         /\ (runs[r].pc = "running" /\ runs'[r].pc = "failed")
               => /\ results' = results
                  /\ pendingUpdates' = pendingUpdates
                  /\ Aborted(runs'[r])
                  /\ runs'[r].error # "none"
                  /\ runs[r].await = "rejected" => runs'[r].error = runs[r].error
         /\ runs[r].pc = "failed" => runs'[r] = runs[r]]_vars

\* A run has failed on a rejected AsyncStorage call next to one that
\* succeeded.
C5_Witness ==
    \E r, q \in RunIds :
        /\ runs[r].pc = "failed"
        /\ runs[r].error = "AsyncStorageError"
        /\ runs[q].pc = "done"
        /\ Len(History) = 1

\* C6: the history is append-only: every record keeps its position and
\* its fields, each run that completes successfully adds one record at
\* the end, and the length of the history is the number of runs that have
\* completed successfully.
C6_HistoryAppendOnly ==
    [][/\ IsPrefix(results, results')
       /\ IsPrefix(History, History')
       /\ Len(History') = NumDone']_vars

\* Two runs have completed back to back before a re-render.
C6_Witness == Len(pendingUpdates) >= 2 /\ NumDone >= 2

\* C7: in every record writeDifference is the absolute value of
\* asyncWriteTime - mmkvWriteTime and readDifference the absolute value of
\* asyncReadTime - mmkvReadTime, of the timings of that same record.
C7_DifferencesAreAbsolute ==
    \A rec \in AllRecords :
        /\ rec.writeDifference = Abs(rec.asyncWriteTime - rec.mmkvWriteTime)
        /\ rec.readDifference = Abs(rec.asyncReadTime - rec.mmkvReadTime)

\* A record whose write was faster on AsyncStorage and whose read was
\* faster on MMKV.
C7_Witness ==
    \E rec \in AllRecords :
        /\ rec.asyncWriteTime < rec.mmkvWriteTime
        /\ rec.asyncReadTime > rec.mmkvReadTime

\* C8: with the monotonic clock, the four timings of every record are
\* >= 0.
C8_TimingsNonNegative ==
    \A rec \in AllRecords :
        /\ rec.asyncWriteTime >= 0
        /\ rec.asyncReadTime >= 0
        /\ rec.mmkvWriteTime >= 0
        /\ rec.mmkvReadTime >= 0

\* A record of a run whose AsyncStorage and MMKV calls both
\* took time.
C8_Witness ==
    \E rec \in AllRecords :
        /\ rec.asyncWriteTime + rec.asyncReadTime > 0
        /\ rec.mmkvWriteTime + rec.mmkvReadTime > 0

C10_MmkvReadsOwnWrite ==
    \A r \in RunIds :
        runs[r].pc = "done" => runs[r].mmkvReadValue = ExpectedPayload(runs[r].size)

\* The second run pressed has completed while the first, of another size,
\* is still waiting for AsyncStorage.
C10_Witness ==
    /\ runs[2].pc = "done"
    /\ runs[1].pc = "running"
    /\ runs[1].size # runs[2].size
====
